---- MODULE Spec2Model ----
(***************************************************************************)
(* Model of the electricity-tariff notifier.                               *)
(*                                                                         *)
(*   src/config/scripts/precio_luz.py  ("config" script): classify the     *)
(*       current time, format a message, send it only when it differs from *)
(*       the text kept in last_output.txt, then overwrite that file.       *)
(*   src/precio_luz.py                 ("root" script): classify, format,  *)
(*       send on every run; it has no store.                               *)
(*                                                                         *)
(* Text is a sequence of one-character strings, so that concatenation and  *)
(* str.strip() are computed character by character.                        *)
(***************************************************************************)
EXTENDS Integers, Sequences, FiniteSets, TLC

\* ------------------------------------------------------------------ bounds
MaxRuns == 3      \* invocations of main() in one behaviour
NumDays == 14     \* calendar dates a timestamp is drawn from

\* ------------------------------------------------------------ input spaces
Procs   == {1, 2}                       \* OS processes that may run main()
Dates   == 0 .. (NumDays - 1)           \* day 0 is a Monday
Hours   == 0 .. 23                      \* datetime.hour
Times   == [date : Dates, hour : Hours]
NoTime  == [date |-> 0, hour |-> 0]     \* `now` before it is assigned
Scripts == {"config", "root"}

\* Python's None; it is not a text (no element of a text has four characters)
None == <<"None">>

\* ----------------------------------------------------------- domain layer
\* stand-in for the calendar of holidays.Spain(): the whole second week
SpainHolidays == {d \in Dates : d >= 7 /\ d < 14}

is_holiday(day) == day \in SpainHolidays

\* datetime.weekday(): 0 = Monday ... 6 = Sunday
weekday_of(day) == day % 7

VALLE == <<"H", "o", "r", "a", " ", "V", "a", "l", "l", "e", " ", "(", "l", "a", " ", "m", "á", "s", " ", "b", "a", "r", "a", "t", "a", ")">>
LLANO == <<"H", "o", "r", "a", " ", "L", "l", "a", "n", "o", " ", "(", "p", "r", "e", "c", "i", "o", " ", "i", "n", "t", "e", "r", "m", "e", "d", "i", "o", ")">>
PUNTA == <<"H", "o", "r", "a", " ", "P", "u", "n", "t", "a", " ", "(", "l", "a", " ", "m", "á", "s", " ", "c", "a", "r", "a", ")">>
PeriodoDesconocido == <<"P", "e", "r", "i", "o", "d", "o", " ", "d", "e", "s", "c", "o", "n", "o", "c", "i", "d", "o">>

\* mutant: the holiday calendar is not consulted
calculate_no_holiday(now) ==
    LET hour == now.hour
        weekday == weekday_of(now.date)
    IN  IF weekday >= 5 THEN VALLE
        ELSE IF 0 <= hour /\ hour < 8 THEN VALLE
        ELSE IF (8 <= hour /\ hour < 10) \/ (14 <= hour /\ hour < 18)
                \/ (22 <= hour /\ hour < 24) THEN LLANO
        ELSE IF (10 <= hour /\ hour < 14) \/ (18 <= hour /\ hour < 22) THEN PUNTA
        ELSE PeriodoDesconocido

\* mutant: the last mid range stops at 23, leaving hour 23 unclassified
calculate_gap_at_23(now) ==
    LET hour == now.hour
        weekday == weekday_of(now.date)
    IN  IF weekday >= 5 \/ is_holiday(now.date) THEN VALLE
        ELSE IF 0 <= hour /\ hour < 8 THEN VALLE
        ELSE IF (8 <= hour /\ hour < 10) \/ (14 <= hour /\ hour < 18)
                \/ (22 <= hour /\ hour < 23) THEN LLANO
        ELSE IF (10 <= hour /\ hour < 14) \/ (18 <= hour /\ hour < 22) THEN PUNTA
        ELSE PeriodoDesconocido

\* ElectricityPeriodCalculator.calculate (identical in both scripts)
calculate(now) ==
    LET hour == now.hour
        weekday == weekday_of(now.date)
    IN  IF weekday >= 5 \/ is_holiday(now.date) THEN VALLE
        ELSE IF 0 <= hour /\ hour < 8 THEN VALLE
        ELSE IF (8 <= hour /\ hour < 10) \/ (14 <= hour /\ hour < 18)
                \/ (22 <= hour /\ hour < 24) THEN LLANO
        ELSE IF (10 <= hour /\ hour < 14) \/ (18 <= hour /\ hour < 22) THEN PUNTA
        ELSE PeriodoDesconocido

\* decimal digits of an hour, as text
HourText(h) ==
    LET d == <<"0", "1", "2", "3", "4", "5", "6", "7", "8", "9">>
    IN  <<d[(h \div 10) + 1], d[(h % 10) + 1]>>

\* mutant: the time of day is folded into the message
format_with_time(now, period) ==
    HourText(now.hour) \o <<"h", ":", " ">>
        \o <<"E", "s", "t", "á", "s", " ", "e", "n", " ">> \o period \o <<".">>

\* mutant: the message ends with a line break
format_trailing_newline(now, period) ==
    <<"E", "s", "t", "á", "s", " ", "e", "n", " ">> \o period \o <<".", "\n">>

\* MessageFormatter.format of the config script: f"Estás en {period}."
format(now, period) ==
    <<"E", "s", "t", "á", "s", " ", "e", "n", " ">> \o period \o <<".">>

\* MessageFormatter.format of the root script: f"⚡ Estás en {period}."
format_root(period) ==
    <<"⚡", " ", "E", "s", "t", "á", "s", " ", "e", "n", " ">> \o period \o <<".">>

\* --------------------------------------------------- infrastructure layer
\* characters str.strip() removes
Whitespace == {" ", "\t", "\n", "\r", "\f"}

RECURSIVE lstrip(_)
lstrip(s) == IF s # <<>> /\ Head(s) \in Whitespace THEN lstrip(Tail(s)) ELSE s

RECURSIVE rstrip(_)
rstrip(s) ==
    IF s # <<>> /\ s[Len(s)] \in Whitespace THEN rstrip(SubSeq(s, 1, Len(s) - 1)) ELSE s

\* str.strip()
strip(s) == rstrip(lstrip(s))

\* last_output.txt before the first write
NoFile == [exists |-> FALSE, text |-> <<>>]

\* OutputStateRepository.get_last_output
get_last_output(f) == IF ~f.exists THEN None ELSE strip(f.text)

\* mutant: the new text is appended to the file
save_output_appends(f, msg) == [exists |-> TRUE, text |-> f.text \o msg]

\* OutputStateRepository.save_output: write_text truncates, then writes
save_output(f, msg) == [exists |-> TRUE, text |-> msg]

\* mutant: an exception of the transport leaves send()
send_propagates(log, msg, fails) ==
    IF msg = <<>>
    THEN [log |-> log, escapes |-> FALSE]
    ELSE [log |-> Append(log, [text |-> msg, ok |-> ~fails]), escapes |-> fails]

\* mutant: the notifier drops a text equal to the one it transmitted last
send_dedups(log, msg, fails) ==
    IF msg = <<>> \/ (log # <<>> /\ log[Len(log)].text = msg)
    THEN [log |-> log, escapes |-> FALSE]
    ELSE [log |-> Append(log, [text |-> msg, ok |-> ~fails]), escapes |-> FALSE]

\* TelegramNotifier.send: `log` is the list of calls of bot.send_message,
\* `fails` says whether this call raises; `escapes` whether send() raises
send(log, msg, fails) ==
    IF msg = <<>>
    THEN [log |-> log, escapes |-> FALSE]
    ELSE [log |-> Append(log, [text |-> msg, ok |-> ~fails]), escapes |-> FALSE]

\* mutant: every message counts as new
MessageChanged_always(message_, last_) == TRUE

\* mutant: an absent store counts as "nothing changed"
MessageChanged_none_is_equal(message_, last_) == last_ # None /\ message_ # last_

\* the test `message != last_message` of the config script's run()
MessageChanged(message_, last_) == message_ # last_

\* ------------------------------------------------------------------ state
VARIABLES
    script,        \* which script main() belongs to in this behaviour
    pc,            \* pc[p]: position of process p inside run()
    now,           \* now[p]: the timestamp being classified (CalcSpec)
    period,        \* period[p]: local `period`
    message,       \* message[p]: local `message`, the candidate
    printed,       \* printed[p]: what the process wrote to standard output
    last_message,  \* last_message[p]: local `last_message`
    file,          \* last_output.txt
    sendLog,       \* calls of bot.send_message, in order
    sendCalls,     \* sendCalls[p]: calls of notifier.send by p's run
    saveCalls,     \* saveCalls[p]: calls of save_output by p's run
    raised,        \* raised[p]: the transport raised during p's run
    runs,          \* runs started so far
    prev,          \* candidate of the run that ended last (None: no run yet)
    prevRaised,    \* the transport raised during the run that ended last
    formatted,     \* (period, text) pairs the formatter has produced
    version,       \* writes of last_output.txt so far
    seen           \* seen[p]: the version of the file p's run has read

vars == <<script, pc, now, period, message, printed, last_message, file,
          sendLog, sendCalls, saveCalls, raised, runs, prev, prevRaised,
          formatted, version, seen>>

InitFor(s) ==
    /\ script = s
    /\ pc = [p \in Procs |-> "idle"]
    /\ now = [p \in Procs |-> NoTime]
    /\ period = [p \in Procs |-> <<>>]
    /\ message = [p \in Procs |-> <<>>]
    /\ printed = [p \in Procs |-> <<>>]
    /\ last_message = [p \in Procs |-> None]
    /\ file = NoFile
    /\ sendLog = <<>>
    /\ sendCalls = [p \in Procs |-> 0]
    /\ saveCalls = [p \in Procs |-> 0]
    /\ raised = [p \in Procs |-> FALSE]
    /\ runs = 0
    /\ prev = None
    /\ prevRaised = FALSE
    /\ formatted = {}
    /\ version = 0
    /\ seen = [p \in Procs |-> 0]

Init == InitFor("config")

\* --------------------------------------------- run() of the config script
\* lines 123-127 as one step: they touch nothing but locals and stdout
Begin(p) ==
    /\ script = "config"
    /\ pc[p] = "idle"
    /\ runs < MaxRuns
    /\ \E t \in Times :
          LET per == calculate(t)
              msg == format(t, per)
          IN  /\ period' = [period EXCEPT ![p] = per]
              /\ message' = [message EXCEPT ![p] = msg]
              /\ printed' = [printed EXCEPT ![p] = msg]
    /\ runs' = runs + 1
    /\ pc' = [pc EXCEPT ![p] = "read"]
    /\ UNCHANGED <<script, now, last_message, file, sendLog, sendCalls,
                   saveCalls, raised, prev, prevRaised, formatted, version, seen>>

\* the external scheduler starts main() only when no other run is in progress
Start(p) ==
    /\ \A q \in Procs : pc[q] = "idle"
    /\ Begin(p)

\* line 129
ReadLast(p) ==
    /\ pc[p] = "read"
    /\ last_message' = [last_message EXCEPT ![p] = get_last_output(file)]
    /\ seen' = [seen EXCEPT ![p] = version]
    /\ pc' = [pc EXCEPT ![p] = "compare"]
    /\ UNCHANGED <<script, now, period, message, printed, file, sendLog,
                   sendCalls, saveCalls, raised, runs, prev, prevRaised, formatted, version>>

\* lines 131-132: the test succeeds and notifier.send is called
Send(p) ==
    /\ pc[p] = "compare"
    /\ MessageChanged(message[p], last_message[p])
    /\ \E fails \in BOOLEAN :
          LET r == send(sendLog, message[p], fails)
          IN  /\ sendLog' = r.log
              /\ raised' = [raised EXCEPT ![p] = fails /\ r.log # sendLog]
              /\ pc' = [pc EXCEPT ![p] = IF r.escapes THEN "crashed" ELSE "save"]
    /\ sendCalls' = [sendCalls EXCEPT ![p] = @ + 1]
    /\ UNCHANGED <<script, now, period, message, printed, last_message, file,
                   saveCalls, runs, prev, prevRaised, formatted, version, seen>>

\* line 133
Save(p) ==
    /\ pc[p] = "save"
    /\ file' = save_output(file, message[p])
    /\ version' = version + 1
    /\ saveCalls' = [saveCalls EXCEPT ![p] = @ + 1]
    /\ pc' = [pc EXCEPT ![p] = "done"]
    /\ UNCHANGED <<script, now, period, message, printed, last_message, sendLog,
                   sendCalls, raised, runs, prev, prevRaised, formatted, seen>>

\* lines 131, 134-135: the test fails, only a log line is written
Unchanged(p) ==
    /\ pc[p] = "compare"
    /\ ~MessageChanged(message[p], last_message[p])
    /\ pc' = [pc EXCEPT ![p] = "done"]
    /\ UNCHANGED <<script, now, period, message, printed, last_message, file,
                   sendLog, sendCalls, saveCalls, raised, runs, prev, prevRaised,
                   formatted, version, seen>>

\* run() returns (or an exception ends it) and the process exits
Exit(p) ==
    /\ pc[p] \in {"done", "crashed"}
    /\ prev' = message[p]
    /\ prevRaised' = raised[p]
    /\ pc' = [pc EXCEPT ![p] = "idle"]
    /\ now' = [now EXCEPT ![p] = NoTime]
    /\ period' = [period EXCEPT ![p] = <<>>]
    /\ message' = [message EXCEPT ![p] = <<>>]
    /\ printed' = [printed EXCEPT ![p] = <<>>]
    /\ last_message' = [last_message EXCEPT ![p] = None]
    /\ sendCalls' = [sendCalls EXCEPT ![p] = 0]
    /\ saveCalls' = [saveCalls EXCEPT ![p] = 0]
    /\ raised' = [raised EXCEPT ![p] = FALSE]
    /\ seen' = [seen EXCEPT ![p] = 0]
    /\ UNCHANGED <<script, file, sendLog, runs, formatted, version>>

\* non-overlapping runs of the config script, from an absent store
Next ==
    \E p \in Procs :
        \/ Start(p)
        \/ ReadLast(p)
        \/ Send(p)
        \/ Save(p)
        \/ Unchanged(p)
        \/ Exit(p)

Spec == Init /\ [][Next]_vars

\* runs of the config script that may overlap
RaceNext ==
    \E p \in Procs :
        \/ Begin(p)
        \/ ReadLast(p)
        \/ Send(p)
        \/ Save(p)
        \/ Unchanged(p)
        \/ Exit(p)

RaceSpec == Init /\ [][RaceNext]_vars

\* ----------------------------------------------- run() of the root script
\* lines 118-122 as one step: locals and stdout only
RootBegin(p) ==
    /\ script = "root"
    /\ \A q \in Procs : pc[q] = "idle"
    /\ runs < MaxRuns
    /\ \E t \in Times :
          LET per == calculate(t)
              msg == format_root(per)
          IN  /\ period' = [period EXCEPT ![p] = per]
              /\ message' = [message EXCEPT ![p] = msg]
              /\ printed' = [printed EXCEPT ![p] = msg]
    /\ runs' = runs + 1
    /\ pc' = [pc EXCEPT ![p] = "send"]
    /\ UNCHANGED <<script, now, last_message, file, sendLog, sendCalls,
                   saveCalls, raised, prev, prevRaised, formatted, version, seen>>

\* line 123: notifier.send is called unconditionally
RootSend(p) ==
    /\ script = "root"
    /\ pc[p] = "send"
    /\ \E fails \in BOOLEAN :
          LET r == send(sendLog, message[p], fails)
          IN  /\ sendLog' = r.log
              /\ raised' = [raised EXCEPT ![p] = fails /\ r.log # sendLog]
              /\ pc' = [pc EXCEPT ![p] = IF r.escapes THEN "crashed" ELSE "done"]
    /\ sendCalls' = [sendCalls EXCEPT ![p] = @ + 1]
    /\ UNCHANGED <<script, now, period, message, printed, last_message, file,
                   saveCalls, runs, prev, prevRaised, formatted, version, seen>>

RootInit == InitFor("root")

RootNext ==
    \E p \in Procs :
        \/ RootBegin(p)
        \/ RootSend(p)
        \/ Exit(p)

RootSpec == RootInit /\ [][RootNext]_vars

\* ------------------------- the classifier and the formatters, step by step
\* now = datetime.now()
Now(p) ==
    /\ \A q \in Procs : pc[q] = "idle"
    /\ runs < MaxRuns
    /\ \E t \in Times : now' = [now EXCEPT ![p] = t]
    /\ runs' = runs + 1
    /\ pc' = [pc EXCEPT ![p] = "calc"]
    /\ UNCHANGED <<script, period, message, printed, last_message, file, sendLog,
                   sendCalls, saveCalls, raised, prev, prevRaised, formatted, version, seen>>

\* period = self._calculator.calculate(now)
Calculate(p) ==
    /\ pc[p] = "calc"
    /\ period' = [period EXCEPT ![p] = calculate(now[p])]
    /\ pc' = [pc EXCEPT ![p] = "format"]
    /\ UNCHANGED <<script, now, message, printed, last_message, file, sendLog,
                   sendCalls, saveCalls, raised, runs, prev, prevRaised, formatted, version, seen>>

\* message = self._formatter.format(now, period); print(message)
Format(p) ==
    /\ script = "config"
    /\ pc[p] = "format"
    /\ LET msg == format(now[p], period[p])
       IN  /\ message' = [message EXCEPT ![p] = msg]
           /\ printed' = [printed EXCEPT ![p] = msg]
           /\ formatted' = formatted \cup {[period |-> period[p], text |-> msg]}
    /\ pc' = [pc EXCEPT ![p] = "done"]
    /\ UNCHANGED <<script, now, period, last_message, file, sendLog, sendCalls,
                   saveCalls, raised, runs, prev, prevRaised, version, seen>>

\* message = self._formatter.format(period); print(message)
RootFormat(p) ==
    /\ script = "root"
    /\ pc[p] = "format"
    /\ LET msg == format_root(period[p])
       IN  /\ message' = [message EXCEPT ![p] = msg]
           /\ printed' = [printed EXCEPT ![p] = msg]
           /\ formatted' = formatted \cup {[period |-> period[p], text |-> msg]}
    /\ pc' = [pc EXCEPT ![p] = "done"]
    /\ UNCHANGED <<script, now, period, last_message, file, sendLog, sendCalls,
                   saveCalls, raised, runs, prev, prevRaised, version, seen>>

CalcInit == \E s \in Scripts : InitFor(s)

CalcNext ==
    \E p \in Procs :
        \/ Now(p)
        \/ Calculate(p)
        \/ Format(p)
        \/ RootFormat(p)
        \/ Exit(p)

CalcSpec == CalcInit /\ [][CalcNext]_vars

\* ================================================================ claims
\* the classifier has returned for now[p]
Classified(p) == pc[p] \in {"format", "done"}

\* the tariff table of a working day, written out hour by hour
ValleHours == {0, 1, 2, 3, 4, 5, 6, 7}
LlanoHours == {8, 9, 14, 15, 16, 17, 22, 23}
PuntaHours == {10, 11, 12, 13, 18, 19, 20, 21}

\* C1: on a Saturday or Sunday, and on any date the holiday provider reports
\* as a holiday (whatever its weekday), calculate returns VALLE at every hour.
C1_WeekendOrHolidayIsValle ==
    \A p \in Procs :
        (Classified(p)
         /\ (weekday_of(now[p].date) \in {5, 6} \/ is_holiday(now[p].date)))
        => period[p] = VALLE

\* a holiday Tuesday at 11:00, a peak hour on a working day, classified VALLE
C1_Witness ==
    \E p \in Procs :
        /\ Classified(p)
        /\ weekday_of(now[p].date) = 1
        /\ is_holiday(now[p].date)
        /\ now[p].hour = 11
        /\ period[p] = VALLE

\* C2: on a Monday-to-Friday non-holiday, calculate follows the table:
\* [0,8) VALLE, [8,10) [14,18) [22,24) LLANO, [10,14) [18,22) PUNTA; the three
\* ranges partition 0..23 and "Periodo desconocido" is never returned.
C2_WorkingDayTable ==
    /\ ValleHours \cup LlanoHours \cup PuntaHours = Hours
    /\ ValleHours \cap LlanoHours = {}
    /\ ValleHours \cap PuntaHours = {}
    /\ LlanoHours \cap PuntaHours = {}
    /\ \A p \in Procs :
          (Classified(p) /\ weekday_of(now[p].date) < 5 /\ ~is_holiday(now[p].date))
          => /\ now[p].hour \in ValleHours => period[p] = VALLE
             /\ now[p].hour \in LlanoHours => period[p] = LLANO
             /\ now[p].hour \in PuntaHours => period[p] = PUNTA
             /\ period[p] # PeriodoDesconocido

\* a non-holiday Wednesday at 23:00 classified LLANO
C2_Witness ==
    \E p \in Procs :
        /\ Classified(p)
        /\ weekday_of(now[p].date) = 2
        /\ ~is_holiday(now[p].date)
        /\ now[p].hour = 23
        /\ period[p] = LLANO

\* C3: a run of the config script whose stored last message equals its
\* candidate calls neither notifier.send nor save_output, the transport is
\* not used and the store still reads back the same text.
C3_EqualMessageNoSendNoSave ==
    \A p \in Procs :
        (pc[p] = "done" /\ last_message[p] = message[p])
        => /\ sendCalls[p] = 0
           /\ saveCalls[p] = 0
           /\ ~raised[p]
           /\ file.exists
           /\ get_last_output(file) = last_message[p]

\* a finished run that found its own candidate in the store
C3_Witness ==
    \E p \in Procs :
        /\ pc[p] = "done"
        /\ last_message[p] = message[p]
        /\ sendCalls[p] = 0
        /\ sendLog # <<>>

\* C4: a run of the config script whose stored last message is present and
\* differs from the candidate calls send exactly once with the candidate,
\* before the store is written (after send the store still holds the old
\* text), and ends with the store holding exactly the candidate.
C4_DifferentMessageSendThenSave ==
    \A p \in Procs :
        (pc[p] \in {"save", "done", "crashed"}
         /\ last_message[p] # None /\ last_message[p] # message[p])
        => /\ sendCalls[p] = 1
           /\ sendLog # <<>>
           /\ sendLog[Len(sendLog)].text = message[p]
           /\ pc[p] = "save" => /\ saveCalls[p] = 0
                                /\ get_last_output(file) = last_message[p]
           /\ pc[p] = "done" => /\ saveCalls[p] = 1
                                /\ file = [exists |-> TRUE, text |-> message[p]]
           /\ pc[p] # "crashed"

\* a finished run that replaced a different stored text by its candidate
C4_Witness ==
    \E p \in Procs :
        /\ pc[p] = "done"
        /\ last_message[p] # None
        /\ last_message[p] # message[p]
        /\ file.text = message[p]
        /\ Len(sendLog) >= 2

\* C5: the first run finds no file, get_last_output returns None, and the
\* run makes exactly one send and exactly one store write.
C5_FirstRunSendsAndSaves ==
    \A p \in Procs :
        /\ (runs = 1 /\ pc[p] \in {"compare", "save", "done"})
              => last_message[p] = None
        /\ (pc[p] = "done" /\ last_message[p] = None)
              => /\ sendCalls[p] = 1
                 /\ saveCalls[p] = 1
                 /\ Len(sendLog) = 1
                 /\ sendLog[1].text = message[p]
                 /\ file.exists

\* a first run in a peak hour, finished
C5_Witness ==
    \E p \in Procs :
        /\ pc[p] = "done"
        /\ runs = 1
        /\ last_message[p] = None
        /\ period[p] = PUNTA
        /\ sendCalls[p] = 1
        /\ saveCalls[p] = 1

\* C6: when the transport raises, send swallows the error: the run never
\* ends by an exception, it still writes the candidate to the store, and the
\* next run with the same candidate does not call send.
C6_FailedSendCountsAsSent ==
    \A p \in Procs :
        /\ pc[p] # "crashed"
        /\ raised[p] => pc[p] \in {"save", "done"}
        /\ (raised[p] /\ pc[p] = "done")
              => file = [exists |-> TRUE, text |-> message[p]]
        /\ (pc[p] = "done" /\ prevRaised /\ prev = message[p])
              => sendCalls[p] = 0

\* a run finished without sending, after a run whose delivery failed
C6_Witness ==
    \E p \in Procs :
        /\ pc[p] = "done"
        /\ prevRaised
        /\ prev = message[p]
        /\ sendCalls[p] = 0
        /\ ~sendLog[Len(sendLog)].ok

\* C7: in the root script, of two consecutive runs that compute the same
\* message, the second does not call the notifier's send.
C7_RootSecondRunDoesNotSend ==
    \A p \in Procs :
        (script = "root" /\ pc[p] = "done" /\ prev = message[p])
        => sendCalls[p] = 0

\* C8: the message depends on the period only: whatever the timestamp, the
\* formatter gives the text of the run, and all texts produced for one period
\* are equal (both scripts).
C8_MessageIsFunctionOfPeriod ==
    /\ \A a, b \in formatted : a.period = b.period => a.text = b.text
    /\ \A p \in Procs :
          (script = "config" /\ pc[p] = "done")
          => \A t \in Times : format(t, period[p]) = message[p]

\* two evaluations at different hours gave one period and one text
C8_Witness ==
    \E p \in Procs :
        /\ pc[p] = "done"
        /\ runs >= 2
        /\ prev = message[p]
        /\ now[p].hour = 23
        /\ Cardinality(formatted) >= 2

\* C9: when two runs overlap so that both have read the same stored value
\* (the file as left by the same write) and both hold the same candidate,
\* different from it, then both call send and the transport carries the same
\* text twice in a row.
C9_OverlappingRunsBothSend ==
    \A p, q \in Procs :
        (/\ p # q
         /\ pc[p] = "done" /\ pc[q] = "done"
         /\ seen[p] = seen[q]
         /\ last_message[p] = last_message[q]
         /\ message[p] = message[q]
         /\ message[p] # last_message[p])
        => /\ sendCalls[p] = 1
           /\ sendCalls[q] = 1
           /\ Len(sendLog) >= 2
           /\ sendLog[Len(sendLog)].text = message[p]
           /\ sendLog[Len(sendLog) - 1].text = message[p]

\* the duplicate notification: two finished overlapping runs, one text, sent twice
C9_Witness ==
    \E p, q \in Procs :
        /\ p # q
        /\ pc[p] = "done" /\ pc[q] = "done"
        /\ seen[p] = seen[q]
        /\ last_message[p] = last_message[q]
        /\ message[p] = message[q]
        /\ sendCalls[p] = 1 /\ sendCalls[q] = 1
        /\ Len(sendLog) = 2
        /\ sendLog[1].text = sendLog[2].text

\* C10: in non-overlapping runs from an absent store, the candidate survives
\* save_output / get_last_output, after a run the store reads back as that
\* run's candidate, a run sends iff it is the first or its candidate differs
\* from the previous run's, and consecutive sends carry different texts.
C10_SequentialRunsDedup ==
    /\ \A p \in Procs :
          /\ pc[p] \in {"read", "compare", "save", "done"}
                => get_last_output(save_output(file, message[p])) = message[p]
          /\ pc[p] = "done"
                => /\ get_last_output(file) = message[p]
                   /\ sendCalls[p] \in {0, 1}
                   /\ sendCalls[p] = 1 <=> (prev = None \/ message[p] # prev)
    /\ \A i \in 1 .. (Len(sendLog) - 1) : sendLog[i].text # sendLog[i + 1].text

\* a later run whose candidate differs from the previous one's has sent
C10_Witness ==
    \E p \in Procs :
        /\ pc[p] = "done"
        /\ prev # None
        /\ prev # message[p]
        /\ sendCalls[p] = 1
        /\ Len(sendLog) = 2
        /\ get_last_output(file) = message[p]

====
